---- MODULE Spec2Model ----
(***************************************************************************)
(* PackagePulse: the health scorer (depsdev.ComputeHealthMetrics), the     *)
(* severity summarizer and the tool handlers of internal/tools/tools.go    *)
(* (deps.vulns, deps.health, deps.upgrade_plan) over the shared response   *)
(* cache, the OSV vulnerability service and the deps.dev metadata service. *)
(*                                                                         *)
(* Go strings that the code inspects byte by byte (version strings,        *)
(* severity scores) are sequences of one-character strings; strings that   *)
(* are only compared with "" or formatted are TLA+ strings.  Times are     *)
(* whole minutes; the zero time.Time is 0.  A float64 score is the         *)
(* integer it always equals (every summand is a multiple of 5).            *)
(***************************************************************************)
EXTENDS Integers, Sequences, FiniteSets, TLC

VARIABLES now, world, cache, req, ctx, srv

vars == <<now, world, cache, req, ctx, srv>>

(***************************************************************************)
(* Bounds of the model and constants of the program.                       *)
(***************************************************************************)
MaxVulns == 2
MaxTicks == 2
TickStep == 3
MinutesPerDay == 1440
CacheTTL == 5
LicenseTTL == 1440
Now0 == 1000 * MinutesPerDay

(***************************************************************************)
(* Strings.                                                                *)
(***************************************************************************)
UpperBytes == <<"A", "B", "C", "D", "E", "F", "G", "H", "I", "J", "K", "L", "M",
                "N", "O", "P", "Q", "R", "S", "T", "U", "V", "W", "X", "Y", "Z">>
LowerBytes == <<"a", "b", "c", "d", "e", "f", "g", "h", "i", "j", "k", "l", "m",
                "n", "o", "p", "q", "r", "s", "t", "u", "v", "w", "x", "y", "z">>

\* toLower: every byte in 'A'..'Z' is moved by 32, every other byte is kept.
toLower(s) ==
    [i \in 1..Len(s) |->
        IF \E k \in 1..26 : UpperBytes[k] = s[i]
        THEN LowerBytes[CHOOSE k \in 1..26 : UpperBytes[k] = s[i]]
        ELSE s[i]]

\* findInString: substr occurs in s at some offset.
findInString(s, substr) ==
    IF Len(substr) = 0 THEN TRUE
    ELSE IF Len(s) < Len(substr) THEN FALSE
    ELSE \E i \in 0..(Len(s) - Len(substr)) :
            SubSeq(s, i + 1, i + Len(substr)) = substr

containsIgnoreCase(s, substr) == findInString(toLower(s), toLower(substr))

\* A byte sequence as the text fmt's %s prints.
RECURSIVE Str(_)
Str(s) == IF s = <<>> THEN "" ELSE Head(s) \o Str(Tail(s))

Digits == <<"0", "1", "2", "3", "4", "5", "6", "7", "8", "9">>

\* fmt's %d.
RECURSIVE Itoa(_)
Itoa(n) ==
    IF n < 0 THEN "-" \o Itoa(-n)
    ELSE IF n < 10 THEN Digits[n + 1]
    ELSE Itoa(n \div 10) \o Digits[(n % 10) + 1]

\* fmt's %.1f of a score (a whole number of points).
FormatScore(x) == Itoa(x) \o ".0"

\* Go's int(x / y) for y > 0: the quotient truncated toward zero.
TruncDiv(x, y) == IF x >= 0 THEN x \div y ELSE -((-x) \div y)

(***************************************************************************)
(* Severity summarizer.                                                    *)
(***************************************************************************)
sCritical == <<"c", "r", "i", "t", "i", "c", "a", "l">>
sHigh == <<"h", "i", "g", "h">>
sMedium == <<"m", "e", "d", "i", "u", "m">>
sLow == <<"l", "o", "w">>
sUnknown == <<"u", "n", "k", "n", "o", "w", "n">>

EmptySummary == [Critical |-> 0, High |-> 0, Medium |-> 0, Low |-> 0, Unknown |-> 0]

\* A variant of the switch without its default branch.
CountSeverity_NoDefault(summary, severity) ==
    IF containsIgnoreCase(severity, sCritical)
    THEN [summary EXCEPT !.Critical = @ + 1]
    ELSE IF containsIgnoreCase(severity, sHigh)
    THEN [summary EXCEPT !.High = @ + 1]
    ELSE IF containsIgnoreCase(severity, sMedium)
    THEN [summary EXCEPT !.Medium = @ + 1]
    ELSE IF containsIgnoreCase(severity, sLow)
    THEN [summary EXCEPT !.Low = @ + 1]
    ELSE summary

\* The switch of both summarizer loops: the counter a severity string increments.
CountSeverity(summary, severity) ==
    IF containsIgnoreCase(severity, sCritical)
    THEN [summary EXCEPT !.Critical = @ + 1]
    ELSE IF containsIgnoreCase(severity, sHigh)
    THEN [summary EXCEPT !.High = @ + 1]
    ELSE IF containsIgnoreCase(severity, sMedium)
    THEN [summary EXCEPT !.Medium = @ + 1]
    ELSE IF containsIgnoreCase(severity, sLow)
    THEN [summary EXCEPT !.Low = @ + 1]
    ELSE [summary EXCEPT !.Unknown = @ + 1]

\* A variant that reads the last severity entry of a record.
computeVulnSummary_LastSeverity(vulns) ==
    LET RECURSIVE loop(_, _)
        loop(i, summary) ==
            IF i > Len(vulns) THEN summary
            ELSE LET vuln == vulns[i]
                     severity == IF Len(vuln.Severity) > 0
                                 THEN vuln.Severity[Len(vuln.Severity)].Score
                                 ELSE sUnknown
                 IN loop(i + 1, CountSeverity(summary, severity))
    IN loop(1, EmptySummary)

\* computeVulnSummary, used by HandleUpgradePlan.
computeVulnSummary(vulns) ==
    LET RECURSIVE loop(_, _)
        loop(i, summary) ==
            IF i > Len(vulns) THEN summary
            ELSE LET vuln == vulns[i]
                     severity == IF Len(vuln.Severity) > 0
                                 THEN vuln.Severity[1].Score ELSE sUnknown
                 IN loop(i + 1, CountSeverity(summary, severity))
    IN loop(1, EmptySummary)

\* The summary loop HandleVulns runs in line.
VulnsSummary(vulns) ==
    LET RECURSIVE loop(_, _)
        loop(i, summary) ==
            IF i > Len(vulns) THEN summary
            ELSE LET vuln == vulns[i]
                     severity == IF Len(vuln.Severity) > 0
                                 THEN vuln.Severity[1].Score ELSE sUnknown
                 IN loop(i + 1, CountSeverity(summary, severity))
    IN loop(1, EmptySummary)

(***************************************************************************)
(* The SPDX license catalog and its lookup.                                *)
(***************************************************************************)
License(id, name, osi, category) ==
    [ID |-> id, Name |-> name, IsOSIApproved |-> osi, Category |-> category]

\* initializeLicenses: the records of the catalog, which addLicense stores
\* under their ID.
Licenses ==
    {License(<<"M", "I", "T">>, "MIT License", TRUE, "Permissive"),
     License(<<"A", "p", "a", "c", "h", "e", "-", "2", ".", "0">>, "Apache License 2.0", TRUE, "Permissive"),
     License(<<"B", "S", "D", "-", "3", "-", "C", "l", "a", "u", "s", "e">>, "BSD 3-Clause \"New\" or \"Revised\" License", TRUE, "Permissive"),
     License(<<"B", "S", "D", "-", "2", "-", "C", "l", "a", "u", "s", "e">>, "BSD 2-Clause \"Simplified\" License", TRUE, "Permissive"),
     License(<<"I", "S", "C">>, "ISC License", TRUE, "Permissive"),
     License(<<"G", "P", "L", "-", "3", ".", "0">>, "GNU General Public License v3.0", TRUE, "Copyleft"),
     License(<<"G", "P", "L", "-", "2", ".", "0">>, "GNU General Public License v2.0", TRUE, "Copyleft"),
     License(<<"L", "G", "P", "L", "-", "3", ".", "0">>, "GNU Lesser General Public License v3.0", TRUE, "Weak Copyleft"),
     License(<<"A", "G", "P", "L", "-", "3", ".", "0">>, "GNU Affero General Public License v3.0", TRUE, "Strong Copyleft"),
     License(<<"M", "P", "L", "-", "2", ".", "0">>, "Mozilla Public License 2.0", TRUE, "Weak Copyleft"),
     License(<<"C", "C", "0", "-", "1", ".", "0">>, "Creative Commons Zero v1.0 Universal", FALSE, "Public Domain"),
     License(<<"C", "C", "-", "B", "Y", "-", "4", ".", "0">>, "Creative Commons Attribution 4.0 International", FALSE, "Permissive"),
     License(<<"U", "n", "l", "i", "c", "e", "n", "s", "e">>, "The Unlicense", FALSE, "Public Domain"),
     License(<<"W", "T", "F", "P", "L">>, "Do What The F*ck You Want To Public License", FALSE, "Public Domain")}

\* The keys of c.licenses.
LicenseIDs == {l.ID : l \in Licenses}

\* c.licenses[id], for a key id.
LicenseOf(id) == CHOOSE l \in Licenses : l.ID = id

WhiteSpace == {" ", "\t", "\n", "\r"}

\* strings.TrimSpace: s without its leading and trailing white space.
TrimSpace(s) ==
    LET black == {i \in 1..Len(s) : s[i] \notin WhiteSpace}
    IN IF black = {} THEN <<>>
       ELSE SubSeq(s, CHOOSE i \in black : \A j \in black : i <= j,
                      CHOOSE i \in black : \A j \in black : j <= i)

\* strings.ToUpper, on ASCII text.
ToUpper(s) ==
    [i \in 1..Len(s) |->
        IF \E k \in 1..26 : LowerBytes[k] = s[i]
        THEN UpperBytes[CHOOSE k \in 1..26 : LowerBytes[k] = s[i]]
        ELSE s[i]]

\* A variant with the exact match only.
GetLicense_Exact(licenseID) ==
    IF licenseID \in LicenseIDs
    THEN [ok |-> TRUE, license |-> LicenseOf(licenseID)]
    ELSE [ok |-> FALSE, license |-> <<>>]

\* Client.GetLicense: the exact match, then the first key equal to the
\* trimmed, upper-cased identifier once upper-cased itself (no two keys
\* are equal in upper case, so the order of the map's range is immaterial).
GetLicense(licenseID) ==
    LET normalizedID == ToUpper(TrimSpace(licenseID))
        found == {id \in LicenseIDs : ToUpper(id) = normalizedID}
    IN IF licenseID \in LicenseIDs
       THEN [ok |-> TRUE, license |-> LicenseOf(licenseID)]
       ELSE IF found # {}
       THEN [ok |-> TRUE, license |-> LicenseOf(CHOOSE id \in found : TRUE)]
       ELSE [ok |-> FALSE, license |-> <<>>]

\* json.MarshalIndent of a *LicenseInfo: the object under its JSON names.
MarshalLicense(l) ==
    [id |-> l.ID, name |-> l.Name, is_osi_approved |-> l.IsOSIApproved,
     category |-> l.Category]

(***************************************************************************)
(* Health scorer.                                                          *)
(***************************************************************************)
ZeroTime == 0

RecExcellent == "This package is actively maintained with good development practices."
RecGood == "Package shows regular maintenance and good health indicators."
RecFair == "Package is maintained but may have slower update cycles. Review before use."
RecPoor == "WARNING: Package shows signs of poor maintenance. Consider alternatives."
RecCritical == "CRITICAL: Package appears abandoned or unmaintained. Strongly consider alternatives."

\* A variant that keeps the first flagged record.
ScanVersions_FirstFlagged(versions) ==
    LET flagged == {i \in 1..Len(versions) : versions[i].IsDefault}
        first == CHOOSE i \in flagged : \A j \in flagged : i <= j
        after == {i \in 1..Len(versions) : versions[i].PublishedAt > ZeroTime}
        newest == CHOOSE i \in after :
                     \A j \in after : versions[j].PublishedAt <= versions[i].PublishedAt
    IN [LatestVersion |-> IF flagged = {} THEN <<>> ELSE versions[first].Version,
        LicenseCount |-> IF flagged = {} THEN 0 ELSE Len(versions[first].Licenses),
        latestPub |-> IF after = {} THEN ZeroTime ELSE versions[newest].PublishedAt]

\* A variant that falls back on the newest record when none is flagged.
ScanVersions_NewestFallback(versions) ==
    LET flagged == {i \in 1..Len(versions) : versions[i].IsDefault}
        last == CHOOSE i \in flagged : \A j \in flagged : j <= i
        after == {i \in 1..Len(versions) : versions[i].PublishedAt > ZeroTime}
        newest == CHOOSE i \in after :
                     \A j \in after : versions[j].PublishedAt <= versions[i].PublishedAt
        pick == IF flagged # {} THEN last ELSE newest
    IN [LatestVersion |-> IF flagged = {} /\ after = {} THEN <<>>
                          ELSE versions[pick].Version,
        LicenseCount |-> IF flagged = {} /\ after = {} THEN 0
                         ELSE Len(versions[pick].Licenses),
        latestPub |-> IF after = {} THEN ZeroTime ELSE versions[newest].PublishedAt]

\* The scan of pkg.Versions, by its result: every flagged record overwrites
\* LatestVersion and LicenseCount, so the last flagged one stays; latestPub
\* starts at the zero time and ends at the greatest PublishedAt after it.
ScanVersions(versions) ==
    LET flagged == {i \in 1..Len(versions) : versions[i].IsDefault}
        last == CHOOSE i \in flagged : \A j \in flagged : j <= i
        after == {i \in 1..Len(versions) : versions[i].PublishedAt > ZeroTime}
        newest == CHOOSE i \in after :
                     \A j \in after : versions[j].PublishedAt <= versions[i].PublishedAt
    IN [LatestVersion |-> IF flagged = {} THEN <<>> ELSE versions[last].Version,
        LicenseCount |-> IF flagged = {} THEN 0 ELSE Len(versions[last].Licenses),
        latestPub |-> IF after = {} THEN ZeroTime ELSE versions[newest].PublishedAt]

\* A variant with the points of the two oldest bands exchanged.
RecencyPoints_Exchanged(days) ==
    IF days <= 30 THEN 40
    ELSE IF days <= 90 THEN 30
    ELSE IF days <= 180 THEN 10
    ELSE IF days <= 365 THEN 20
    ELSE 0

\* A variant with exclusive upper bounds (days < 30, ...).
RecencyPoints_Exclusive(days) ==
    IF days < 30 THEN 40
    ELSE IF days < 90 THEN 30
    ELSE IF days < 180 THEN 20
    ELSE IF days < 365 THEN 10
    ELSE 0

\* The recency component.
RecencyPoints(days) ==
    IF days <= 30 THEN 40
    ELSE IF days <= 90 THEN 30
    ELSE IF days <= 180 THEN 20
    ELSE IF days <= 365 THEN 10
    ELSE 0

\* A variant whose tests are not chained by else: every threshold met adds.
VersionPoints_Cumulative(count) ==
    (IF count >= 50 THEN 20 ELSE 0) + (IF count >= 20 THEN 15 ELSE 0)
    + (IF count >= 10 THEN 10 ELSE 0) + (IF count >= 5 THEN 5 ELSE 0)

\* The version-count component.
VersionPoints(count) ==
    IF count >= 50 THEN 20
    ELSE IF count >= 20 THEN 15
    ELSE IF count >= 10 THEN 10
    ELSE IF count >= 5 THEN 5
    ELSE 0

\* A variant with exclusive lower bounds (score > 80, ...).
LevelOf_Strict(score) ==
    IF score > 80 THEN "excellent"
    ELSE IF score > 60 THEN "good"
    ELSE IF score > 40 THEN "fair"
    ELSE IF score > 20 THEN "poor"
    ELSE "critical"

\* The maintenance level of a score.
LevelOf(score) ==
    IF score >= 80 THEN "excellent"
    ELSE IF score >= 60 THEN "good"
    ELSE IF score >= 40 THEN "fair"
    ELSE IF score >= 20 THEN "poor"
    ELSE "critical"

\* The canned recommendation of a score.
RecommendationOf(score) ==
    IF score >= 80 THEN RecExcellent
    ELSE IF score >= 60 THEN RecGood
    ELSE IF score >= 40 THEN RecFair
    ELSE IF score >= 20 THEN RecPoor
    ELSE RecCritical

\* A variant that takes a package without publish time for an old one.
ComputeHealthMetrics_UnknownAge(pkg, t) ==
    LET scan == ScanVersions(pkg.Versions)
        days == IF scan.latestPub # ZeroTime
                THEN TruncDiv(t - scan.latestPub, MinutesPerDay) ELSE 366
        hasRepo == \E i \in 1..Len(pkg.Links) :
                      pkg.Links[i].Label = "SOURCE_REPO" \/ pkg.Links[i].Label = "REPOSITORY"
        hasDocs == \E i \in 1..Len(pkg.Links) : pkg.Links[i].Label = "DOCUMENTATION"
        score == RecencyPoints(days) + VersionPoints(Len(pkg.Versions))
                 + (IF hasRepo THEN 20 ELSE 0)
                 + (IF hasDocs THEN 10 ELSE 0)
                 + (IF scan.LicenseCount > 0 THEN 10 ELSE 0)
    IN [PackageName |-> pkg.PackageKey.Name,
        Ecosystem |-> pkg.PackageKey.System,
        LatestVersion |-> scan.LatestVersion,
        VersionCount |-> Len(pkg.Versions),
        LastPublished |-> scan.latestPub,
        DaysSinceUpdate |-> days,
        HasRepository |-> hasRepo,
        HasDocumentation |-> hasDocs,
        LicenseCount |-> scan.LicenseCount,
        MaintenanceScore |-> score,
        MaintenanceLevel |-> LevelOf(score),
        Recommendation |-> RecommendationOf(score)]

\* ComputeHealthMetrics(pkg), called when the clock reads t.
ComputeHealthMetrics(pkg, t) ==
    LET scan == ScanVersions(pkg.Versions)
        days == IF scan.latestPub # ZeroTime
                THEN TruncDiv(t - scan.latestPub, MinutesPerDay) ELSE 0
        hasRepo == \E i \in 1..Len(pkg.Links) :
                      pkg.Links[i].Label = "SOURCE_REPO" \/ pkg.Links[i].Label = "REPOSITORY"
        hasDocs == \E i \in 1..Len(pkg.Links) : pkg.Links[i].Label = "DOCUMENTATION"
        score == RecencyPoints(days) + VersionPoints(Len(pkg.Versions))
                 + (IF hasRepo THEN 20 ELSE 0)
                 + (IF hasDocs THEN 10 ELSE 0)
                 + (IF scan.LicenseCount > 0 THEN 10 ELSE 0)
    IN [PackageName |-> pkg.PackageKey.Name,
        Ecosystem |-> pkg.PackageKey.System,
        LatestVersion |-> scan.LatestVersion,
        VersionCount |-> Len(pkg.Versions),
        LastPublished |-> scan.latestPub,
        DaysSinceUpdate |-> days,
        HasRepository |-> hasRepo,
        HasDocumentation |-> hasDocs,
        LicenseCount |-> scan.LicenseCount,
        MaintenanceScore |-> score,
        MaintenanceLevel |-> LevelOf(score),
        Recommendation |-> RecommendationOf(score)]

\* json.MarshalIndent of a *HealthMetrics: the object under its JSON names.
MarshalHealth(m) ==
    [package_name |-> m.PackageName,
     ecosystem |-> m.Ecosystem,
     latest_version |-> m.LatestVersion,
     version_count |-> m.VersionCount,
     last_published |-> m.LastPublished,
     days_since_update |-> m.DaysSinceUpdate,
     has_repository |-> m.HasRepository,
     has_documentation |-> m.HasDocumentation,
     license_count |-> m.LicenseCount,
     maintenance_score |-> m.MaintenanceScore,
     maintenance_level |-> m.MaintenanceLevel,
     recommendation |-> m.Recommendation]

\* A variant that compares the major components (the text before the
\* first dot).
checkBreakingChanges_Major(current, latest) ==
    LET major(v) ==
            LET dots == {i \in 1..Len(v) : v[i] = "."}
            IN IF dots = {} THEN v
               ELSE SubSeq(v, 1, (CHOOSE i \in dots : \A j \in dots : i <= j) - 1)
    IN IF Len(current) = 0 \/ Len(latest) = 0 THEN FALSE
       ELSE major(current) # major(latest)

(***************************************************************************)
(* Upgrade planner.                                                        *)
(***************************************************************************)
\* checkBreakingChanges: both strings non-empty and their first bytes differ.
checkBreakingChanges(current, latest) ==
    IF Len(current) = 0 \/ Len(latest) = 0 THEN FALSE
    ELSE IF current[1] # latest[1] THEN TRUE
    ELSE FALSE

\* A variant that tests the high count before the critical count.
UrgentRecommendation_HighFirst(criticalCount, highCount, vulnCount, latest) ==
    IF highCount > 0
    THEN "URGENT: Upgrade to " \o Str(latest) \o " to address "
         \o Itoa(highCount) \o " high-severity vulnerabilities."
    ELSE IF criticalCount > 0
    THEN "CRITICAL: Upgrade immediately! Found " \o Itoa(criticalCount)
         \o " critical vulnerabilities in current version."
    ELSE "URGENT: Upgrade to " \o Str(latest) \o " to address "
         \o Itoa(vulnCount) \o " known vulnerabilities."

\* The recommendation of the URGENT branch, by severity.
UrgentRecommendation(criticalCount, highCount, vulnCount, latest) ==
    IF criticalCount > 0
    THEN "CRITICAL: Upgrade immediately! Found " \o Itoa(criticalCount)
         \o " critical vulnerabilities in current version."
    ELSE IF highCount > 0
    THEN "URGENT: Upgrade to " \o Str(latest) \o " to address "
         \o Itoa(highCount) \o " high-severity vulnerabilities."
    ELSE "URGENT: Upgrade to " \o Str(latest) \o " to address "
         \o Itoa(vulnCount) \o " known vulnerabilities."

\* A variant without the else branch: the recommendation keeps its zero value.
UpToDateRecommendation_NoElse(level) ==
    IF level = "poor" \/ level = "critical"
    THEN "On latest version, but package shows " \o level
         \o " maintenance. Consider alternatives."
    ELSE ""

\* The recommendation of the OK branch.
UpToDateRecommendation(level) ==
    IF level = "poor" \/ level = "critical"
    THEN "On latest version, but package shows " \o level
         \o " maintenance. Consider alternatives."
    ELSE "Already on latest version. No action needed."

\* A variant whose age test is DaysSinceUpdate >= 180.
OutdatedDecision_Inclusive(breaking, hm) ==
    IF hm.MaintenanceLevel = "poor" \/ hm.MaintenanceLevel = "critical"
    THEN [Priority |-> "WARNING",
          Recommendation |->
             "WARNING: Package shows " \o hm.MaintenanceLevel \o " maintenance (score: "
             \o FormatScore(hm.MaintenanceScore) \o "). Upgrade to " \o Str(hm.LatestVersion)
             \o " available, but consider package alternatives."]
    ELSE IF hm.DaysSinceUpdate >= 180
    THEN [Priority |-> "LOW",
          Recommendation |->
             "Upgrade available (" \o Str(hm.LatestVersion)
             \o "), but no urgent issues. Current version is "
             \o Itoa(hm.DaysSinceUpdate) \o " days old."]
    ELSE IF breaking
    THEN [Priority |-> "MEDIUM",
          Recommendation |->
             "Upgrade to " \o Str(hm.LatestVersion)
             \o " recommended, but may contain breaking changes. Review changelog before upgrading."]
    ELSE [Priority |-> "RECOMMENDED",
          Recommendation |->
             "Upgrade to " \o Str(hm.LatestVersion)
             \o " recommended for latest features and improvements."]

\* The branch "not on latest, no vulnerabilities".
OutdatedDecision(breaking, hm) ==
    IF hm.MaintenanceLevel = "poor" \/ hm.MaintenanceLevel = "critical"
    THEN [Priority |-> "WARNING",
          Recommendation |->
             "WARNING: Package shows " \o hm.MaintenanceLevel \o " maintenance (score: "
             \o FormatScore(hm.MaintenanceScore) \o "). Upgrade to " \o Str(hm.LatestVersion)
             \o " available, but consider package alternatives."]
    ELSE IF hm.DaysSinceUpdate > 180
    THEN [Priority |-> "LOW",
          Recommendation |->
             "Upgrade available (" \o Str(hm.LatestVersion)
             \o "), but no urgent issues. Current version is "
             \o Itoa(hm.DaysSinceUpdate) \o " days old."]
    ELSE IF breaking
    THEN [Priority |-> "MEDIUM",
          Recommendation |->
             "Upgrade to " \o Str(hm.LatestVersion)
             \o " recommended, but may contain breaking changes. Review changelog before upgrading."]
    ELSE [Priority |-> "RECOMMENDED",
          Recommendation |->
             "Upgrade to " \o Str(hm.LatestVersion)
             \o " recommended for latest features and improvements."]

\* A variant that takes the up-to-date branch before the vulnerability branch.
Decide_UpToDateFirst(hasVulns, vulnCount, vulnSummary, isUpToDate, breaking, hm) ==
    IF isUpToDate
    THEN [Priority |-> "OK",
          Recommendation |-> UpToDateRecommendation(hm.MaintenanceLevel)]
    ELSE IF hasVulns
    THEN [Priority |-> "URGENT",
          Recommendation |->
             UrgentRecommendation(IF vulnSummary # <<>> THEN vulnSummary[1].Critical ELSE 0,
                                  IF vulnSummary # <<>> THEN vulnSummary[1].High ELSE 0,
                                  vulnCount, hm.LatestVersion)]
    ELSE OutdatedDecision(breaking, hm)

\* The priority and recommendation branches of HandleUpgradePlan.
Decide(hasVulns, vulnCount, vulnSummary, isUpToDate, breaking, hm) ==
    IF hasVulns
    THEN [Priority |-> "URGENT",
          Recommendation |->
             UrgentRecommendation(IF vulnSummary # <<>> THEN vulnSummary[1].Critical ELSE 0,
                                  IF vulnSummary # <<>> THEN vulnSummary[1].High ELSE 0,
                                  vulnCount, hm.LatestVersion)]
    ELSE IF isUpToDate
    THEN [Priority |-> "OK",
          Recommendation |-> UpToDateRecommendation(hm.MaintenanceLevel)]
    ELSE OutdatedDecision(breaking, hm)

\* A variant that takes a failed vulnerability query for vulnerabilities.
HasVulns_FailClosed(vulnResp) == ~vulnResp.ok \/ Len(vulnResp.Vulns) > 0

\* What HandleUpgradePlan derives from the vulnerability response (nil on error).
HasVulns(vulnResp) == vulnResp.ok /\ Len(vulnResp.Vulns) > 0

\* A variant that compares the versions without a leading "v".
IsUpToDate_IgnoringPrefix(current, latest) ==
    LET strip(v) == IF Len(v) > 0 /\ v[1] = "v" THEN Tail(v) ELSE v
    IN strip(current) = strip(latest)

\* The plan's IsUpToDate: input.CurrentVersion == healthMetrics.LatestVersion.
IsUpToDate(current, latest) == current = latest

\* The *UpgradePlanOutput HandleUpgradePlan builds from its input, the
\* vulnerability response and the health metrics.
BuildPlan(input, vulnResp, hm) ==
    LET has == HasVulns(vulnResp)
        count == IF has THEN Len(vulnResp.Vulns) ELSE 0
        summaryPtr == IF has THEN <<computeVulnSummary(vulnResp.Vulns)>> ELSE <<>>
        upToDate == IsUpToDate(input.Version, hm.LatestVersion)
        breakingChanges == checkBreakingChanges(input.Version, hm.LatestVersion)
        decision == Decide(has, count, summaryPtr, upToDate, breakingChanges, hm)
    IN [Package |-> input.Package,
        Ecosystem |-> input.Ecosystem,
        CurrentVersion |-> input.Version,
        LatestVersion |-> hm.LatestVersion,
        IsUpToDate |-> upToDate,
        HasVulnerabilities |-> has,
        VulnerabilityCount |-> count,
        MaintenanceLevel |-> hm.MaintenanceLevel,
        MaintenanceScore |-> hm.MaintenanceScore,
        DaysSinceUpdate |-> hm.DaysSinceUpdate,
        Priority |-> decision.Priority,
        Recommendation |-> decision.Recommendation,
        UpgradePath |-> <<input.Version, hm.LatestVersion>>,
        BreakingChanges |-> breakingChanges,
        VulnerabilitySummary |-> summaryPtr]

\* json.MarshalIndent of a VulnSummary.
MarshalSummary(v) ==
    [critical |-> v.Critical, high |-> v.High, medium |-> v.Medium,
     low |-> v.Low, unknown |-> v.Unknown]

\* json.MarshalIndent of a *UpgradePlanOutput: the object under its JSON
\* names; vulnerability_summary is omitted when the pointer is nil.
MarshalPlan(plan) ==
    LET base == [package |-> plan.Package,
                 ecosystem |-> plan.Ecosystem,
                 current_version |-> plan.CurrentVersion,
                 latest_version |-> plan.LatestVersion,
                 is_up_to_date |-> plan.IsUpToDate,
                 has_vulnerabilities |-> plan.HasVulnerabilities,
                 vulnerability_count |-> plan.VulnerabilityCount,
                 maintenance_level |-> plan.MaintenanceLevel,
                 maintenance_score |-> plan.MaintenanceScore,
                 days_since_update |-> plan.DaysSinceUpdate,
                 priority |-> plan.Priority,
                 recommendation |-> plan.Recommendation,
                 upgrade_path |-> plan.UpgradePath,
                 breaking_changes_possible |-> plan.BreakingChanges]
    IN IF plan.VulnerabilitySummary = <<>> THEN base
       ELSE base @@ [vulnerability_summary |-> MarshalSummary(plan.VulnerabilitySummary[1])]

\* The *VulnsOutput HandleVulns builds.
BuildVulnsOutput(input, vulns) ==
    [Package |-> input.Package,
     Ecosystem |-> input.Ecosystem,
     Version |-> input.Version,
     VulnerabilityCount |-> Len(vulns),
     Vulnerabilities |-> vulns,
     Summary |-> VulnsSummary(vulns)]

\* json.MarshalIndent of a *VulnsOutput; version is omitted when empty.
MarshalVulns(out) ==
    LET base == [package |-> out.Package,
                 ecosystem |-> out.Ecosystem,
                 vulnerability_count |-> out.VulnerabilityCount,
                 vulnerabilities |-> out.Vulnerabilities,
                 summary |-> MarshalSummary(out.Summary)]
    IN IF out.Version = <<>> THEN base ELSE base @@ [version |-> out.Version]

(***************************************************************************)
(* The response cache: key -> (value, expiry).                             *)
(***************************************************************************)
VulnsKey(input) ==
    "vulns:" \o input.Ecosystem \o ":" \o input.Package \o ":" \o Str(input.Version)
HealthKey(input) == "health:" \o input.Ecosystem \o ":" \o input.Package
UpgradeKey(input) ==
    "upgrade:" \o input.Ecosystem \o ":" \o input.Package \o ":" \o Str(input.Version)
LicenseKey(input) == "license:" \o Str(input.LicenseID)

\* cache.Get: the entry under key, when there is one that has not expired.
CacheFound(c, key, t) == key \in DOMAIN c /\ t < c[key].expiry

\* cache.Get followed by the type assertion of the caller.
CacheHit(c, key, kind, t) == CacheFound(c, key, t) /\ c[key].kind = kind

\* cache.Set(key, val, ttl) at time t.
CacheSet(c, key, kind, val, ttl, t) ==
    [k \in DOMAIN c \cup {key} |->
        IF k = key THEN [kind |-> kind, val |-> val, expiry |-> t + ttl] ELSE c[k]]

(***************************************************************************)
(* Requests.  A request is at "idle" (none yet), at a collaborator call    *)
(* ("up_osv", "up_deps", "v_osv", "h_deps") or "done" with its result.     *)
(***************************************************************************)
Procs == {"p1", "p2"}

NoResp == [ok |-> FALSE, Vulns |-> <<>>]
NoInput == [Ecosystem |-> "", Package |-> "", Version |-> <<>>]
NoResult == [IsError |-> FALSE, GoErr |-> FALSE, Text |-> ""]

IdleReq ==
    [pc |-> "idle", tool |-> "none", input |-> NoInput, vulnResp |-> NoResp,
     calls |-> <<>>, result |-> NoResult]

\* A variant that leaves IsError unset.
ErrorResult_NoFlag(text) == [IsError |-> FALSE, GoErr |-> FALSE, Text |-> text]

\* A *mcp.CallToolResult with IsError set, returned with a nil Go error.
ErrorResult(text) == [IsError |-> TRUE, GoErr |-> FALSE, Text |-> text]

\* A *mcp.CallToolResult carrying the serialized output.
OkResult(json) == [IsError |-> FALSE, GoErr |-> FALSE, Text |-> json]

\* osvClient.Query against the service as it is now: (*QueryResponse, error).
OsvQuery(w) ==
    IF w.osv.up THEN [ok |-> TRUE, Vulns |-> w.osv.vulns] ELSE NoResp

\* The error text of depsDevClient.GetPackage.
DepsError(w, input) ==
    IF w.deps.status = "notfound"
    THEN "package not found: " \o input.Ecosystem \o "/" \o input.Package
    ELSE "execute request: connection refused"

\* The collaborator calls of request p: an HTTP call under a cancelled
\* context returns the context's error, whatever the service would answer.
OsvCall(p) == IF ctx[p] = "cancelled" THEN NoResp ELSE OsvQuery(world)

OsvCallError(p) ==
    IF ctx[p] = "cancelled" THEN "execute request: context canceled"
    ELSE "execute request: connection refused"

DepsCallFails(p) == ctx[p] = "cancelled" \/ world.deps.status # "ok"

DepsCallError(p, input) ==
    IF ctx[p] = "cancelled" THEN "execute request: context canceled"
    ELSE DepsError(world, input)

Finish(p, tool, input, vulnResp, calls, result) ==
    req' = [req EXCEPT ![p] =
              [pc |-> "done", tool |-> tool, input |-> input, vulnResp |-> vulnResp,
               calls |-> calls, result |-> result]]

Goto(p, pc, tool, input, vulnResp, calls) ==
    req' = [req EXCEPT ![p] =
              [pc |-> pc, tool |-> tool, input |-> input, vulnResp |-> vulnResp,
               calls |-> calls, result |-> NoResult]]

\* A variant that stores the plan again on a cache hit, renewing its TTL.
UP_Start_Renew(p, input) ==
    /\ req[p].pc \in {"idle", "done"}
    /\ IF input.Ecosystem = "" \/ input.Package = "" \/ input.Version = <<>>
       THEN /\ Finish(p, "upgrade", input, NoResp, <<>>,
                      ErrorResult("ecosystem, package, and current_version are required"))
            /\ UNCHANGED cache
       ELSE IF CacheHit(cache, UpgradeKey(input), "plan", now)
       THEN /\ Finish(p, "upgrade", input, NoResp, <<>>,
                      OkResult(MarshalPlan(cache[UpgradeKey(input)].val)))
            /\ cache' = CacheSet(cache, UpgradeKey(input), "plan",
                                 cache[UpgradeKey(input)].val, CacheTTL, now)
       ELSE /\ Goto(p, "up_osv", "upgrade", input, NoResp, <<>>)
            /\ UNCHANGED cache
    /\ ctx' = [ctx EXCEPT ![p] = "live"]
    /\ UNCHANGED <<now, world, srv>>

\* A variant without the validation of the input.
UP_Start_Unchecked(p, input) ==
    /\ req[p].pc \in {"idle", "done"}
    /\ IF CacheHit(cache, UpgradeKey(input), "plan", now)
       THEN Finish(p, "upgrade", input, NoResp, <<>>,
                   OkResult(MarshalPlan(cache[UpgradeKey(input)].val)))
       ELSE Goto(p, "up_osv", "upgrade", input, NoResp, <<>>)
    /\ ctx' = [ctx EXCEPT ![p] = "live"]
    /\ UNCHANGED <<now, world, cache, srv>>

\* HandleUpgradePlan, from its entry to the vulnerability query: validation
\* and the cache lookup.
UP_Start(p, input) ==
    /\ req[p].pc \in {"idle", "done"}
    /\ IF input.Ecosystem = "" \/ input.Package = "" \/ input.Version = <<>>
       THEN Finish(p, "upgrade", input, NoResp, <<>>,
                   ErrorResult("ecosystem, package, and current_version are required"))
       ELSE IF CacheHit(cache, UpgradeKey(input), "plan", now)
       THEN Finish(p, "upgrade", input, NoResp, <<>>,
                   OkResult(MarshalPlan(cache[UpgradeKey(input)].val)))
       ELSE Goto(p, "up_osv", "upgrade", input, NoResp, <<>>)
    /\ ctx' = [ctx EXCEPT ![p] = "live"]
    /\ UNCHANGED <<now, world, cache, srv>>

\* A variant that repeats a failed vulnerability query.
UP_Osv_Retry(p) ==
    /\ req[p].pc = "up_osv"
    /\ Goto(p, IF OsvCall(p).ok THEN "up_deps" ELSE "up_osv", "upgrade",
            req[p].input, OsvCall(p), Append(req[p].calls, "osv"))
    /\ UNCHANGED <<now, world, cache, ctx, srv>>

\* HandleUpgradePlan, step 1: the vulnerability query, whose failure is logged
\* and otherwise ignored.
UP_Osv(p) ==
    /\ req[p].pc = "up_osv"
    /\ Goto(p, "up_deps", "upgrade", req[p].input, OsvCall(p),
            Append(req[p].calls, "osv"))
    /\ UNCHANGED <<now, world, cache, ctx, srv>>

\* HandleUpgradePlan, step 2 to the end: the metadata query, the plan, the
\* cache write and the result.
UP_Deps(p) ==
    /\ req[p].pc = "up_deps"
    /\ LET r == req[p]
           calls == Append(r.calls, "deps")
       IN IF DepsCallFails(p)
          THEN /\ Finish(p, "upgrade", r.input, r.vulnResp, calls,
                         ErrorResult("Failed to query package info: "
                                     \o DepsCallError(p, r.input)))
               /\ UNCHANGED cache
          ELSE LET hm == ComputeHealthMetrics(world.deps.pkg, now)
                   plan == BuildPlan(r.input, r.vulnResp, hm)
               IN /\ cache' = CacheSet(cache, UpgradeKey(r.input), "plan", plan,
                                       CacheTTL, now)
                  /\ Finish(p, "upgrade", r.input, r.vulnResp, calls,
                            OkResult(MarshalPlan(plan)))
    /\ UNCHANGED <<now, world, ctx, srv>>

\* The deps.vulns tool, from its entry to the vulnerability query: the cache
\* lookup of HandleVulns (there is no validation).
V_Start(p, input) ==
    /\ req[p].pc \in {"idle", "done"}
    /\ IF CacheHit(cache, VulnsKey(input), "vulns", now)
       THEN Finish(p, "vulns", input, NoResp, <<>>,
                   OkResult(MarshalVulns(cache[VulnsKey(input)].val)))
       ELSE Goto(p, "v_osv", "vulns", input, NoResp, <<>>)
    /\ ctx' = [ctx EXCEPT ![p] = "live"]
    /\ UNCHANGED <<now, world, cache, srv>>

\* The deps.vulns tool, from the vulnerability query to the end.
V_Osv(p) ==
    /\ req[p].pc = "v_osv"
    /\ LET r == req[p]
           resp == OsvCall(p)
           calls == Append(r.calls, "osv")
       IN IF ~resp.ok
          THEN /\ Finish(p, "vulns", r.input, resp, calls,
                         ErrorResult("query OSV: " \o OsvCallError(p)))
               /\ UNCHANGED cache
          ELSE LET output == BuildVulnsOutput(r.input, resp.Vulns)
               IN /\ cache' = CacheSet(cache, VulnsKey(r.input), "vulns", output,
                                       CacheTTL, now)
                  /\ Finish(p, "vulns", r.input, resp, calls,
                            OkResult(MarshalVulns(output)))
    /\ UNCHANGED <<now, world, ctx, srv>>

\* HandleHealth, from its entry to the metadata query: the cache lookup.
H_Start(p, input) ==
    /\ req[p].pc \in {"idle", "done"}
    /\ IF CacheHit(cache, HealthKey(input), "health", now)
       THEN Finish(p, "health", input, NoResp, <<>>,
                   OkResult(MarshalHealth(cache[HealthKey(input)].val)))
       ELSE Goto(p, "h_deps", "health", input, NoResp, <<>>)
    /\ ctx' = [ctx EXCEPT ![p] = "live"]
    /\ UNCHANGED <<now, world, cache, srv>>

\* HandleHealth, from the metadata query to the end.
H_Deps(p) ==
    /\ req[p].pc = "h_deps"
    /\ LET r == req[p]
           calls == Append(r.calls, "deps")
       IN IF DepsCallFails(p)
          THEN /\ Finish(p, "health", r.input, NoResp, calls,
                         ErrorResult("Failed to query deps.dev: "
                                     \o DepsCallError(p, r.input)))
               /\ UNCHANGED cache
          ELSE LET hm == ComputeHealthMetrics(world.deps.pkg, now)
               IN /\ cache' = CacheSet(cache, HealthKey(r.input), "health", hm,
                                       CacheTTL, now)
                  /\ Finish(p, "health", r.input, NoResp, calls,
                            OkResult(MarshalHealth(hm)))
    /\ UNCHANGED <<now, world, ctx, srv>>

\* HandleLicense: validation, the cache lookup, the lookup in the catalog,
\* the cache write and the result.  The catalog is in memory: the handler
\* calls no service.
L_Call(p, input) ==
    /\ req[p].pc \in {"idle", "done"}
    /\ IF input.LicenseID = <<>>
       THEN /\ Finish(p, "license", input, NoResp, <<>>,
                      ErrorResult("license_id is required"))
            /\ UNCHANGED cache
       ELSE IF CacheHit(cache, LicenseKey(input), "license", now)
       THEN /\ Finish(p, "license", input, NoResp, <<>>,
                      OkResult(MarshalLicense(cache[LicenseKey(input)].val)))
            /\ UNCHANGED cache
       ELSE LET found == GetLicense(input.LicenseID)
            IN IF ~found.ok
               THEN /\ Finish(p, "license", input, NoResp, <<"spdx">>,
                              ErrorResult("License not found: license not found: "
                                          \o Str(input.LicenseID)))
                    /\ UNCHANGED cache
               ELSE /\ cache' = CacheSet(cache, LicenseKey(input), "license",
                                         found.license, LicenseTTL, now)
                    /\ Finish(p, "license", input, NoResp, <<"spdx">>,
                              OkResult(MarshalLicense(found.license)))
    /\ ctx' = [ctx EXCEPT ![p] = "live"]
    /\ UNCHANGED <<now, world, srv>>

\* The caller cancels the context of request p (or its deadline expires)
\* while the request waits for a collaborator.
Cancel(p) ==
    /\ req[p].pc \in {"up_osv", "up_deps", "v_osv", "h_deps"}
    /\ ctx[p] = "live"
    /\ ctx' = [ctx EXCEPT ![p] = "cancelled"]
    /\ UNCHANGED <<now, world, cache, req, srv>>

\* The clock advances.
Tick ==
    /\ now + TickStep <= Now0 + MaxTicks * TickStep
    /\ now' = now + TickStep
    /\ UNCHANGED <<world, cache, req, ctx, srv>>

\* The vulnerability service goes down or comes back.
OsvFlip ==
    /\ world' = [world EXCEPT !.osv.up = ~@]
    /\ UNCHANGED <<now, cache, req, ctx, srv>>

\* The metadata service changes between answering, not finding the package
\* and being unreachable.
DepsFlip ==
    /\ \E status \in {"ok", "notfound", "down"} :
          /\ status # world.deps.status
          /\ world' = [world EXCEPT !.deps.status = status]
    /\ UNCHANGED <<now, cache, req, ctx, srv>>

(***************************************************************************)
(* The server process, from the end of the registration to its exit.       *)
(* srv.build tells the two main programs of the repository apart:          *)
(* "signals" installs the signal handler and logs the startup message,     *)
(* "plain" runs the transport under context.Background() and leaves the    *)
(* signals to the Go runtime, which ends the process.                      *)
(***************************************************************************)
LogStarting == "starting PackagePulse MCP server"
LogSignal == "received shutdown signal"
LogComplete == "server shutdown complete"
LogFailed == "server failed"

Signals == {"SIGINT", "SIGTERM"}

\* main before the run of the transport: the run context is live, the
\* signal channel (capacity 1) is empty and the handler goroutine waits.
Starting(build) ==
    [build |-> build, pc |-> "startup", log |-> <<>>, runCtx |-> "live",
     sigChan |-> <<>>, handler |-> IF build = "signals" THEN "waiting" ELSE "none",
     exit |-> "none", signalled |-> FALSE]

\* The server the tool handlers run in: the transport is running.
Serving ==
    [Starting("signals") EXCEPT !.pc = "running", !.log = <<LogStarting>>]

Logged(msg) == \E i \in 1..Len(srv.log) : srv.log[i] = msg

\* A variant without the test of ctx.Err(): every error is fatal.
RunOutcome_NoCtxTest(build, err, runCtx) ==
    IF err THEN "fatal" ELSE "clean"

\* What main does with the value RunWithTransport returned: a non-nil error
\* is fatal, unless the run context is cancelled (a test the plain main
\* does not make).
RunOutcome(build, err, runCtx) ==
    IF err /\ ~(build = "signals" /\ runCtx = "cancelled") THEN "fatal" ELSE "clean"

\* main logs the startup message and calls RunWithTransport.
M_Run ==
    /\ srv.pc = "startup"
    /\ srv' = [srv EXCEPT !.pc = "running",
                          !.log = IF srv.build = "signals"
                                  THEN Append(@, LogStarting) ELSE @]
    /\ UNCHANGED <<now, world, cache, req, ctx>>

\* The operating system delivers SIGINT or SIGTERM.  With signal.Notify the
\* signal goes to sigChan, and is dropped when the channel is full; without
\* it the runtime ends the process.
Signal(sig) ==
    /\ srv.pc # "exited"
    /\ IF srv.build = "signals"
       THEN srv' = [srv EXCEPT
                      !.sigChan = IF Len(@) < 1 THEN Append(@, sig) ELSE @,
                      !.signalled = @ \/ (srv.pc = "running" /\ Logged(LogStarting))]
       ELSE srv' = [srv EXCEPT !.pc = "exited", !.exit = "signal"]
    /\ UNCHANGED <<now, world, cache, req, ctx>>

\* The handler goroutine receives the signal, logs it and cancels the run
\* context.
M_Handler ==
    /\ srv.pc # "exited"
    /\ srv.handler = "waiting"
    /\ srv.sigChan # <<>>
    /\ srv' = [srv EXCEPT !.sigChan = Tail(@), !.handler = "done",
                          !.log = Append(@, LogSignal), !.runCtx = "cancelled"]
    /\ UNCHANGED <<now, world, cache, req, ctx>>

\* RunWithTransport returns, with an error or without, and main ends the
\* process.
M_Return(err) ==
    /\ srv.pc = "running"
    /\ LET outcome == RunOutcome(srv.build, err, srv.runCtx)
       IN srv' = [srv EXCEPT
                    !.pc = "exited",
                    !.exit = outcome,
                    !.log = IF outcome = "fatal" THEN Append(@, LogFailed)
                            ELSE IF srv.build = "signals" THEN Append(@, LogComplete)
                            ELSE @]
    /\ UNCHANGED <<now, world, cache, req, ctx>>

\* The transport returns because its context is cancelled.
M_ReturnCancelled ==
    /\ srv.runCtx = "cancelled"
    /\ \E err \in BOOLEAN : M_Return(err)

(***************************************************************************)
(* Inputs and service answers the specifications draw from.                *)
(***************************************************************************)
v123 == <<"1", ".", "2", ".", "3">>
v130 == <<"1", ".", "3", ".", "0">>
v200 == <<"2", ".", "0", ".", "0">>
vOld == <<"0", ".", "9", ".", "0">>

Input(e, n, v) == [Ecosystem |-> e, Package |-> n, Version |-> v]

ValidUpgradeInputs == {Input("npm", "lodash", v123), Input("npm", "lodash", v200)}
UpgradeInputs ==
    ValidUpgradeInputs
    \cup {Input("", "lodash", v123), Input("npm", "", v123), Input("npm", "lodash", <<>>)}
VulnsInputs == {Input("npm", "lodash", v123), Input("npm", "lodash", <<>>)}
HealthInputs == {Input("npm", "lodash", <<>>)}

\* A vulnerability record with the given severity score strings.
Vuln(scores) ==
    [ID |-> "GHSA-0000",
     Severity |-> [i \in 1..Len(scores) |-> [Type |-> "CVSS_V3", Score |-> scores[i]]]]

scCRITICAL == <<"C", "R", "I", "T", "I", "C", "A", "L">>
scHigh == <<"H", "i", "g", "h">>
scMedium == <<"m", "e", "d", "i", "u", "m">>
scLOW == <<"L", "O", "W">>
scVector == <<"C", "V", "S", "S", ":", "3", ".", "1", "/", "A", "V", ":", "N">>

scLowHigh == <<"l", "o", "w", "H", "I", "G", "H">>

PlanVulnKinds == {Vuln(<<scCRITICAL>>), Vuln(<<scHigh>>), Vuln(<<>>)}
AllVulnKinds ==
    PlanVulnKinds
    \cup {Vuln(<<scMedium>>), Vuln(<<scLOW>>), Vuln(<<scVector>>), Vuln(<< <<>> >>),
          Vuln(<<scLOW, scCRITICAL>>), Vuln(<<scLowHigh>>)}

\* The lists of at most MaxVulns records of the given kinds.
VulnLists(kinds) == UNION {[1..n -> kinds] : n \in 0..MaxVulns}

Link(label) == [Label |-> label, URL |-> "https://example.test"]

LinkLists ==
    {<<>>, <<Link("SOURCE_REPO")>>, <<Link("HOMEPAGE"), Link("REPOSITORY")>>,
     <<Link("DOCUMENTATION")>>, <<Link("SOURCE_REPO"), Link("DOCUMENTATION")>>}

\* Which records of n carry the default flag.
Flagged(pattern, n) ==
    CASE pattern = "none" -> {}
      [] pattern = "last" -> {n}
      [] pattern = "first" -> {1}
      [] pattern = "both" -> {1, n}

\* A package of n versions: the last is `latest`, published `age` minutes
\* before Now0, with `licenses`; the i-th before it is a day older each and
\* declares one license.
MkPackage(n, age, pattern, latest, licenses, links) ==
    [PackageKey |-> [System |-> "npm", Name |-> "lodash"],
     Versions |->
        [i \in 1..n |->
            [Version |-> IF i = n THEN latest ELSE vOld,
             PublishedAt |-> Now0 - age - (n - i) * MinutesPerDay,
             IsDefault |-> i \in Flagged(pattern, n),
             Licenses |-> IF i = n THEN licenses ELSE <<"ISC">>]],
     Links |-> links]

VersionCounts == {0, 1, 4, 5, 9, 10, 19, 20, 49, 50, 60}

\* Ages in minutes: the day thresholds and their neighbours, the last minute
\* of a day, and a timestamp half a day in the future.
Ages ==
    {d * MinutesPerDay : d \in {0, 30, 31, 90, 91, 180, 181, 365, 366, 800}}
    \cup {30 * MinutesPerDay + (MinutesPerDay - 1), 0 - (MinutesPerDay \div 2)}

\* The package with every record's publish time absent (the zero time).
Unpublished(pkg) ==
    [pkg EXCEPT !.Versions =
        [i \in 1..Len(pkg.Versions) |-> [pkg.Versions[i] EXCEPT !.PublishedAt = ZeroTime]]]

HealthPackages ==
    {MkPackage(n, a, f, v200, l, k) :
        n \in VersionCounts, a \in Ages, f \in {"none", "last", "first", "both"},
        l \in {<<>>, <<"MIT">>}, k \in LinkLists}
    \cup {Unpublished(MkPackage(n, 0, f, v200, l, k)) :
             n \in VersionCounts, f \in {"none", "last"},
             l \in {<<>>, <<"MIT">>}, k \in LinkLists}

PlanPackages ==
    {MkPackage(n, d * MinutesPerDay, f, v, <<"MIT">>, k) :
        n \in {0, 1, 5, 50}, d \in {10, 180, 181, 400}, f \in {"none", "last"},
        v \in {v130, v200},
        k \in {<<>>, <<Link("SOURCE_REPO"), Link("DOCUMENTATION")>>}}

NoPackage == [PackageKey |-> [System |-> "", Name |-> ""], Versions |-> <<>>, Links |-> <<>>]

OsvUp(vulns) == [up |-> TRUE, vulns |-> vulns]
OsvDown == [up |-> FALSE, vulns |-> <<>>]
DepsOk(pkg) == [status |-> "ok", pkg |-> pkg]
DepsFail(kind) == [status |-> kind, pkg |-> NoPackage]

InitRest ==
    /\ now = Now0
    /\ cache = <<>>
    /\ req = [p \in Procs |-> IdleReq]
    /\ ctx = [p \in Procs |-> "live"]
    /\ srv = Serving

(***************************************************************************)
(* SpecHealth: deps.health over every package of HealthPackages.           *)
(***************************************************************************)
InitHealth ==
    /\ world \in {[osv |-> OsvDown, deps |-> DepsOk(pkg)] : pkg \in HealthPackages}
    /\ InitRest

NextHealth ==
    \/ \E input \in HealthInputs : H_Start("p1", input)
    \/ H_Deps("p1")

SpecHealth == InitHealth /\ [][NextHealth]_vars

(***************************************************************************)
(* SpecPlan: deps.upgrade_plan over the answers of both services.          *)
(***************************************************************************)
InitPlan ==
    /\ world \in
         {[osv |-> o, deps |-> d] :
             o \in {OsvDown} \cup {OsvUp(l) : l \in VulnLists(PlanVulnKinds)},
             d \in {DepsFail("notfound"), DepsFail("down")}
                   \cup {DepsOk(pkg) : pkg \in PlanPackages}}
    /\ InitRest

NextPlan ==
    \/ \E input \in UpgradeInputs : UP_Start("p1", input)
    \/ UP_Osv("p1")
    \/ UP_Deps("p1")

SpecPlan == InitPlan /\ [][NextPlan]_vars

(***************************************************************************)
(* SpecSummary: deps.vulns and deps.upgrade_plan over every list of        *)
(* vulnerability records.                                                  *)
(***************************************************************************)
InitSummary ==
    /\ world \in
         {[osv |-> OsvUp(l),
           deps |-> DepsOk(MkPackage(5, 10 * MinutesPerDay, "last", v200, <<"MIT">>, <<>>))] :
             l \in VulnLists(AllVulnKinds)}
    /\ InitRest

NextSummary ==
    \/ \E input \in VulnsInputs : V_Start("p1", input)
    \/ V_Osv("p1")
    \/ \E input \in ValidUpgradeInputs : UP_Start("p1", input)
    \/ UP_Osv("p1")
    \/ UP_Deps("p1")

SpecSummary == InitSummary /\ [][NextSummary]_vars

(***************************************************************************)
(* SpecTools: deps.vulns and deps.health over requests whose required      *)
(* fields may be missing (a missing field unmarshals to the empty string). *)
(***************************************************************************)
ToolInputs == {Input(e, n, <<>>) : e \in {"", "npm"}, n \in {"", "lodash"}}

InitTools ==
    /\ world \in
         {[osv |-> o, deps |-> d] :
             o \in {OsvDown, OsvUp(<<Vuln(<<scHigh>>)>>)},
             d \in {DepsFail("notfound"),
                    DepsOk(MkPackage(5, 10 * MinutesPerDay, "last", v200, <<"MIT">>, <<>>))}}
    /\ InitRest

NextTools ==
    \/ \E input \in ToolInputs : V_Start("p1", input)
    \/ V_Osv("p1")
    \/ \E input \in ToolInputs : H_Start("p1", input)
    \/ H_Deps("p1")

SpecTools == InitTools /\ [][NextTools]_vars

(***************************************************************************)
(* SpecCancel: deps.upgrade_plan while the caller may cancel the request.  *)
(***************************************************************************)
InitCancel ==
    /\ world \in
         {[osv |-> o, deps |-> d] :
             o \in {OsvDown, OsvUp(<<>>), OsvUp(<<Vuln(<<scCRITICAL>>)>>)},
             d \in {DepsFail("notfound"),
                    DepsOk(MkPackage(5, 10 * MinutesPerDay, "last", v200, <<"MIT">>, <<>>))}}
    /\ InitRest

NextCancel ==
    \/ \E input \in ValidUpgradeInputs : UP_Start("p1", input)
    \/ UP_Osv("p1")
    \/ UP_Deps("p1")
    \/ Cancel("p1")

SpecCancel == InitCancel /\ [][NextCancel]_vars

(***************************************************************************)
(* SpecConc: two clients call deps.upgrade_plan once each; their handlers  *)
(* interleave at the collaborator calls and share the cache,               *)
(* while the vulnerability service goes down and comes back.  The inputs   *)
(* include the Maven coordinate org.x:core:1.2.3 split in two ways.        *)
(***************************************************************************)
vCore123 == <<"c", "o", "r", "e", ":", "1", ".", "2", ".", "3">>

ConcInputs ==
    {Input("npm", "lodash", v123),
     Input("maven", "org.x:core", v123),
     Input("maven", "org.x", vCore123)}

InitConc ==
    /\ world = [osv |-> OsvUp(<<Vuln(<<scCRITICAL>>)>>),
                deps |-> DepsOk(MkPackage(5, 10 * MinutesPerDay, "last", v200,
                                          <<"MIT">>, <<Link("SOURCE_REPO")>>))]
    /\ InitRest

\* Client p sends its one request.
ConcStart(p, input) ==
    /\ req[p].pc = "idle"
    /\ UP_Start(p, input)

NextConc ==
    \/ \E p \in Procs : \E input \in ConcInputs : ConcStart(p, input)
    \/ \E p \in Procs : UP_Osv(p)
    \/ \E p \in Procs : UP_Deps(p)
    \/ OsvFlip

SpecConc == InitConc /\ [][NextConc]_vars

(***************************************************************************)
(* SpecRace: as SpecConc, with requests whose keys are equal only when the *)
(* requests are.                                                           *)
(***************************************************************************)
NextRace ==
    \/ \E p \in Procs : \E input \in ValidUpgradeInputs : ConcStart(p, input)
    \/ \E p \in Procs : UP_Osv(p)
    \/ \E p \in Procs : UP_Deps(p)
    \/ OsvFlip

SpecRace == InitConc /\ [][NextRace]_vars

(***************************************************************************)
(* SpecVersions: deps.upgrade_plan over version strings that differ in     *)
(* spelling: a missing component, a leading "v", a two-digit major.        *)
(***************************************************************************)
v100 == <<"1", ".", "0", ".", "0">>
v10 == <<"1", ".", "0">>
vv100 == <<"v", "1", ".", "0", ".", "0">>
v1000 == <<"1", "0", ".", "0", ".", "0">>

VersionInputs ==
    {Input("npm", "lodash", v) : v \in {v123, v200, v100, v10, vv100, v1000}}

InitVersions ==
    /\ world \in
         {[osv |-> o,
           deps |-> DepsOk(MkPackage(5, 10 * MinutesPerDay, f, v, <<"MIT">>,
                                     <<Link("SOURCE_REPO")>>))] :
             o \in {OsvUp(<<>>), OsvUp(<<Vuln(<<scHigh>>)>>)},
             f \in {"none", "last"},
             v \in {v100, v200, v1000}}
    /\ InitRest

NextVersions ==
    \/ \E input \in VersionInputs : UP_Start("p1", input)
    \/ UP_Osv("p1")
    \/ UP_Deps("p1")

SpecVersions == InitVersions /\ [][NextVersions]_vars

(***************************************************************************)
(* SpecLicense: license.info over identifiers in canonical spelling, in    *)
(* other letter case, with surrounding white space, unknown and empty.     *)
(***************************************************************************)
LicenseInput(id) == [LicenseID |-> id]

LicenseInputs ==
    {LicenseInput(id) : id \in
        {<<"M", "I", "T">>,
         <<"m", "i", "t">>,
         <<"M", "i", "t">>,
         <<" ", "m", "i", "t">>,
         <<"M", "I", "T", " ">>,
         <<"G", "P", "L", "-", "3", ".", "0">>,
         <<"g", "p", "l", "-", "3", ".", "0">>,
         <<"A", "p", "a", "c", "h", "e", "-", "2", ".", "0">>,
         <<"G", "P", "L">>,
         <<"M", "I", "T", "X">>,
         <<" ">>,
         <<>>}}

InitLicense ==
    /\ world = [osv |-> OsvDown, deps |-> DepsFail("down")]
    /\ InitRest

NextLicense ==
    \E input \in LicenseInputs : L_Call("p1", input)

SpecLicense == InitLicense /\ [][NextLicense]_vars

(***************************************************************************)
(* SpecServer: the server process from its start to its exit, serving      *)
(* deps.health requests while the transport runs and receiving signals.    *)
(* FairServer adds what the scheduling guarantees: the handler goroutine   *)
(* runs when a signal is in its channel, and the transport returns once    *)
(* its context is cancelled.  A transport that returns for another reason  *)
(* (its input closed, a transport error) may never do so.                  *)
(***************************************************************************)
InitServer ==
    /\ now = Now0
    /\ cache = <<>>
    /\ req = [p \in Procs |-> IdleReq]
    /\ ctx = [p \in Procs |-> "live"]
    /\ srv \in {Starting("signals"), Starting("plain")}
    /\ world \in
         {[osv |-> OsvDown, deps |-> d] :
             d \in {DepsFail("down"),
                    DepsOk(MkPackage(5, 10 * MinutesPerDay, "last", v200, <<"MIT">>, <<>>))}}

\* A request arrives while the transport runs.
SrvRequest(p, input) ==
    /\ srv.pc = "running"
    /\ H_Start(p, input)

\* The handler of a request goes on while the process lives.
SrvReply(p) ==
    /\ srv.pc = "running"
    /\ H_Deps(p)

NextServer ==
    \/ M_Run
    \/ \E sig \in Signals : Signal(sig)
    \/ M_Handler
    \/ \E err \in BOOLEAN : M_Return(err)
    \/ \E input \in HealthInputs : SrvRequest("p1", input)
    \/ SrvReply("p1")

SpecServer == InitServer /\ [][NextServer]_vars

FairServer ==
    SpecServer /\ WF_vars(M_Handler) /\ WF_vars(M_ReturnCancelled)

(***************************************************************************)
(* Spec: the three tools, one request at a time, while the clock advances  *)
(* and the services go down and come back.                                 *)
(***************************************************************************)
Init ==
    /\ world = [osv |-> OsvUp(<<Vuln(<<scCRITICAL>>)>>),
                deps |-> DepsOk(MkPackage(5, 30 * MinutesPerDay + (MinutesPerDay - 1),
                                          "last", v200, <<"MIT">>,
                                          <<Link("SOURCE_REPO")>>))]
    /\ InitRest

Next ==
    \/ \E input \in {Input("npm", "lodash", v123), Input("npm", "", v123)} :
          UP_Start("p1", input)
    \/ UP_Osv("p1")
    \/ UP_Deps("p1")
    \/ \E input \in HealthInputs : V_Start("p1", input)
    \/ V_Osv("p1")
    \/ \E input \in HealthInputs : H_Start("p1", input)
    \/ H_Deps("p1")
    \/ Tick
    \/ OsvFlip
    \/ DepsFlip

Spec == Init /\ [][Next]_vars

(***************************************************************************)
(* Properties.  They read the finished request of p1: its tool, input,     *)
(* the collaborator calls it made and the JSON object of its result.       *)
(***************************************************************************)
R == req["p1"]
J == req["p1"].result.Text

\* The request is done and returned a result that is no error.
OkOf(tool) == R.pc = "done" /\ R.tool = tool /\ ~R.result.IsError

HasLabel(links, labels) == \E i \in 1..Len(links) : links[i].Label \in labels

\* C1: the maintenance score deps.health reports lies in 0..100, for every
\* package (zero versions, any timestamps, any links, any licenses).
C1_ScoreInRange ==
    OkOf("health") => J.maintenance_score >= 0 /\ J.maintenance_score <= 100

C1_Witness == OkOf("health") /\ J.maintenance_score = 100

\* C2: the level is the band of the score (excellent >= 80, good 60..79,
\* fair 40..59, poor 20..39, critical < 20), exactly one band holds, and the
\* recommendation is the non-empty canned sentence of that band.
C2_Canned(level) ==
    CASE level = "excellent" -> RecExcellent
      [] level = "good" -> RecGood
      [] level = "fair" -> RecFair
      [] level = "poor" -> RecPoor
      [] level = "critical" -> RecCritical

C2_LevelBands ==
    OkOf("health") =>
        LET sc == J.maintenance_score
            lv == J.maintenance_level
        IN /\ lv \in {"excellent", "good", "fair", "poor", "critical"}
           /\ (lv = "excellent") <=> (sc >= 80)
           /\ (lv = "good") <=> (sc >= 60 /\ sc < 80)
           /\ (lv = "fair") <=> (sc >= 40 /\ sc < 60)
           /\ (lv = "poor") <=> (sc >= 20 /\ sc < 40)
           /\ (lv = "critical") <=> (sc < 20)
           /\ J.recommendation = C2_Canned(lv)
           /\ J.recommendation # ""

C2_Witness ==
    OkOf("health") /\ J.maintenance_score = 20 /\ J.maintenance_level = "poor"

\* C3: the score is the sum of the five components of the table (recency
\* 40/30/20/10/0 at <=30/<=90/<=180/<=365 days, cadence 20/15/10/5/0 at
\* >=50/>=20/>=10/>=5 versions, 20 for a repository link, 10 for a
\* documentation link, 10 for a license), with the two named examples.
C3_Recency(days) ==
    CASE days <= 30 -> 40
      [] days > 30 /\ days <= 90 -> 30
      [] days > 90 /\ days <= 180 -> 20
      [] days > 180 /\ days <= 365 -> 10
      [] days > 365 -> 0

C3_Cadence(count) ==
    CASE count >= 50 -> 20
      [] count >= 20 /\ count < 50 -> 15
      [] count >= 10 /\ count < 20 -> 10
      [] count >= 5 /\ count < 10 -> 5
      [] count < 5 -> 0

C3_ScoreIsSum ==
    OkOf("health") =>
        LET pkg == world.deps.pkg
            repo == HasLabel(pkg.Links, {"SOURCE_REPO", "REPOSITORY"})
            docs == HasLabel(pkg.Links, {"DOCUMENTATION"})
            lic == J.license_count > 0
        IN /\ J.version_count = Len(pkg.Versions)
           /\ J.maintenance_score =
                 C3_Recency(J.days_since_update) + C3_Cadence(J.version_count)
                 + (IF repo THEN 20 ELSE 0) + (IF docs THEN 10 ELSE 0)
                 + (IF lic THEN 10 ELSE 0)
           /\ (J.version_count >= 50 /\ J.days_since_update <= 30 /\ repo /\ docs /\ lic)
                 => (J.maintenance_score = 100 /\ J.maintenance_level = "excellent")
           /\ (J.version_count < 5 /\ ~repo /\ ~docs /\ ~lic /\ J.days_since_update > 180)
                 => (J.maintenance_score <= 10 /\ J.maintenance_level = "critical")

C3_Witness ==
    /\ OkOf("health")
    /\ J.days_since_update = 31
    /\ J.version_count = 5
    /\ J.maintenance_score = 35

\* C4: every plan deps.upgrade_plan returns, computed or served from the
\* cache, has one of the six priorities and a non-empty recommendation.
C4_PriorityAndRecommendation ==
    OkOf("upgrade") =>
        /\ J.priority \in {"URGENT", "OK", "WARNING", "LOW", "MEDIUM", "RECOMMENDED"}
        /\ J.recommendation # ""

C4_Witness == OkOf("upgrade") /\ R.calls = <<>> /\ J.priority = "OK"

\* C5: a plan is URGENT exactly when it has vulnerabilities, and a computed
\* plan has them whenever the vulnerability query returned at least one,
\* also for an up-to-date package or one of poor or critical maintenance.
C5_UrgentIffVulnerable ==
    OkOf("upgrade") =>
        /\ (J.priority = "URGENT") <=> J.has_vulnerabilities
        /\ (R.calls # <<>> /\ R.vulnResp.ok /\ Len(R.vulnResp.Vulns) > 0)
              => J.priority = "URGENT"

C5_Witness ==
    /\ OkOf("upgrade")
    /\ J.priority = "URGENT"
    /\ J.is_up_to_date
    /\ J.maintenance_level \in {"poor", "critical"}

\* C6: without vulnerabilities the priority is the first match of: up to
\* date -> OK, level poor or critical -> WARNING, more than 180 days ->
\* LOW, breaking changes -> MEDIUM, else RECOMMENDED; with the examples
\* 1.2.3 -> 2.0.0 at level good.
C6_FirstMatch ==
    (OkOf("upgrade") /\ ~J.has_vulnerabilities) =>
        /\ J.priority =
              IF J.is_up_to_date THEN "OK"
              ELSE IF J.maintenance_level \in {"poor", "critical"} THEN "WARNING"
              ELSE IF J.days_since_update > 180 THEN "LOW"
              ELSE IF J.breaking_changes_possible THEN "MEDIUM"
              ELSE "RECOMMENDED"
        /\ (J.current_version = v123 /\ J.latest_version = v200)
              => /\ (J.maintenance_level = "good" /\ J.days_since_update <= 180)
                       => J.priority = "MEDIUM"
                 /\ (J.maintenance_level = "good" /\ J.days_since_update = 181)
                       => J.priority = "LOW"
                 /\ (J.maintenance_level = "poor") => J.priority = "WARNING"

C6_Witness ==
    /\ OkOf("upgrade")
    /\ J.current_version = v123
    /\ J.latest_version = v200
    /\ J.maintenance_level = "good"
    /\ J.days_since_update = 180
    /\ J.priority = "MEDIUM"

\* C7: the URGENT recommendation cites the critical count when it is
\* positive, else the high count when it is positive, else the total count;
\* one CRITICAL vulnerability gives the count 1; an up-to-date package
\* without vulnerabilities and not of poor or critical level gets "Already
\* on latest version. No action needed."
C7_Recommendations ==
    OkOf("upgrade") =>
        /\ J.priority = "URGENT" =>
              LET sm == J.vulnerability_summary
              IN J.recommendation =
                    IF sm.critical > 0
                    THEN "CRITICAL: Upgrade immediately! Found " \o Itoa(sm.critical)
                         \o " critical vulnerabilities in current version."
                    ELSE IF sm.high > 0
                    THEN "URGENT: Upgrade to " \o Str(J.latest_version) \o " to address "
                         \o Itoa(sm.high) \o " high-severity vulnerabilities."
                    ELSE "URGENT: Upgrade to " \o Str(J.latest_version) \o " to address "
                         \o Itoa(J.vulnerability_count) \o " known vulnerabilities."
        /\ (R.calls # <<>> /\ R.vulnResp.ok /\ R.vulnResp.Vulns = <<Vuln(<<scCRITICAL>>)>>)
              => J.recommendation =
                    "CRITICAL: Upgrade immediately! Found 1 critical vulnerabilities in current version."
        /\ (~J.has_vulnerabilities /\ J.is_up_to_date
            /\ J.maintenance_level \notin {"poor", "critical"})
              => J.recommendation = "Already on latest version. No action needed."

C7_Witness ==
    /\ OkOf("upgrade")
    /\ J.priority = "URGENT"
    /\ J.vulnerability_summary.critical > 0
    /\ J.vulnerability_summary.high > 0

\* C8: when the vulnerability query fails and the metadata query succeeds,
\* the request returns a plan, the one a successful query with no
\* vulnerabilities gives: no vulnerabilities, count 0, no summary, not URGENT.
C8_FailureAsEmpty ==
    (R.pc = "done" /\ R.tool = "upgrade" /\ R.calls = <<"osv", "deps">>
     /\ ~R.vulnResp.ok /\ world.deps.status = "ok") =>
        /\ ~R.result.IsError
        /\ J = MarshalPlan(BuildPlan(R.input, [ok |-> TRUE, Vulns |-> <<>>],
                                     ComputeHealthMetrics(world.deps.pkg, now)))
        /\ ~J.has_vulnerabilities
        /\ J.vulnerability_count = 0
        /\ "vulnerability_summary" \notin DOMAIN J
        /\ J.priority # "URGENT"

C8_Witness ==
    /\ OkOf("upgrade")
    /\ R.calls = <<"osv", "deps">>
    /\ ~R.vulnResp.ok
    /\ J.priority = "MEDIUM"

\* C9: when the metadata query fails, whatever the vulnerability query
\* answered, the request ends with an error result (IsError, nil Go error,
\* a message and no plan) and the cache is left as it was.
C9_MetadataFailure ==
    [][(req["p1"].pc = "up_deps" /\ world.deps.status # "ok" /\ req'["p1"].pc = "done")
          => /\ req'["p1"].result.IsError
             /\ ~req'["p1"].result.GoErr
             /\ req'["p1"].result.Text
                   = "Failed to query package info: " \o DepsError(world, req["p1"].input)
             /\ cache' = cache]_vars

C9_Witness ==
    /\ R.pc = "done"
    /\ R.tool = "upgrade"
    /\ R.calls = <<"osv", "deps">>
    /\ R.result.IsError
    /\ R.vulnResp.ok
    /\ Len(R.vulnResp.Vulns) > 0
    /\ UpgradeKey(R.input) \in DOMAIN cache

\* C10: the five counters of a severity summary are non-negative and sum to
\* the number of records, in the output of deps.vulns and in the summary of
\* an upgrade plan.
C10_SumOf(sm) == sm.critical + sm.high + sm.medium + sm.low + sm.unknown

C10_NonNegative(sm) ==
    sm.critical >= 0 /\ sm.high >= 0 /\ sm.medium >= 0 /\ sm.low >= 0 /\ sm.unknown >= 0

C10_CountersSum ==
    /\ OkOf("vulns") =>
          /\ C10_NonNegative(J.summary)
          /\ C10_SumOf(J.summary) = J.vulnerability_count
          /\ J.vulnerability_count = Len(J.vulnerabilities)
    /\ (OkOf("vulns") /\ R.calls # <<>>) =>
          J.vulnerability_count = Len(R.vulnResp.Vulns)
    /\ (OkOf("upgrade") /\ "vulnerability_summary" \in DOMAIN J) =>
          /\ C10_NonNegative(J.vulnerability_summary)
          /\ C10_SumOf(J.vulnerability_summary) = J.vulnerability_count
    /\ (OkOf("upgrade") /\ R.calls # <<>> /\ Len(R.vulnResp.Vulns) > 0) =>
          /\ "vulnerability_summary" \in DOMAIN J
          /\ J.vulnerability_count = Len(R.vulnResp.Vulns)

C10_Witness ==
    /\ OkOf("vulns")
    /\ J.summary.unknown = 1
    /\ J.summary.low = 1
    /\ J.vulnerability_count = 2

\* C11: a record is counted in the one bucket its first severity score
\* string selects (critical, else high, else medium, else low, matched as
\* case-insensitive substrings, else unknown); a record without severity
\* entries is unknown, and later entries are not consulted.
C11_Bucket(vuln) ==
    IF Len(vuln.Severity) = 0 THEN "unknown"
    ELSE LET score == vuln.Severity[1].Score
         IN IF containsIgnoreCase(score, sCritical) THEN "critical"
            ELSE IF containsIgnoreCase(score, sHigh) THEN "high"
            ELSE IF containsIgnoreCase(score, sMedium) THEN "medium"
            ELSE IF containsIgnoreCase(score, sLow) THEN "low"
            ELSE "unknown"

C11_Count(vulns, bucket) ==
    Cardinality({i \in 1..Len(vulns) : C11_Bucket(vulns[i]) = bucket})

C11_Buckets == {"critical", "high", "medium", "low", "unknown"}

C11_FirstSeverityBucket ==
    /\ OkOf("vulns") =>
          \A b \in C11_Buckets : J.summary[b] = C11_Count(J.vulnerabilities, b)
    /\ (OkOf("upgrade") /\ R.calls # <<>> /\ Len(R.vulnResp.Vulns) > 0) =>
          \A b \in C11_Buckets :
             J.vulnerability_summary[b] = C11_Count(R.vulnResp.Vulns, b)

C11_Witness ==
    /\ OkOf("upgrade")
    /\ R.calls # <<>>
    /\ R.vulnResp.Vulns = <<Vuln(<<scLOW, scCRITICAL>>), Vuln(<<scLowHigh>>)>>
    /\ J.vulnerability_summary.low = 1
    /\ J.vulnerability_summary.high = 1
    /\ J.vulnerability_summary.critical = 0

\* C12: two calls of ComputeHealthMetrics on the same PackageInfo return
\* the same HealthMetrics in every field, whatever the times of the calls.
\* The metadata service answers with one PackageInfo throughout, so the
\* metrics a health request computes equal the metrics an earlier request
\* computed from it, which the cache still holds under the request's key.
C12_SameMetricsAtAnyTime ==
    [][(/\ req["p1"].pc = "h_deps"
        /\ req'["p1"].pc = "done"
        /\ ~req'["p1"].result.IsError
        /\ HealthKey(req["p1"].input) \in DOMAIN cache)
          => req'["p1"].result.Text
                = MarshalHealth(cache[HealthKey(req["p1"].input)].val)]_vars

\* C13: an upgrade request with an empty ecosystem, package or current
\* version ends at once with the validation error: no cache lookup, no
\* vulnerability query, no metadata query and no cache write take place.
C13_Invalid(input) ==
    input.Ecosystem = "" \/ input.Package = "" \/ input.Version = <<>>

C13_ValidationFirst ==
    [][(/\ req'["p1"] # req["p1"]
        /\ req'["p1"].tool = "upgrade"
        /\ C13_Invalid(req'["p1"].input))
          => /\ req["p1"].pc \in {"idle", "done"}
             /\ req'["p1"].pc = "done"
             /\ req'["p1"].calls = <<>>
             /\ req'["p1"].result.IsError
             /\ ~req'["p1"].result.GoErr
             /\ req'["p1"].result.Text
                   = "ecosystem, package, and current_version are required"
             /\ cache' = cache]_vars

C13_Witness ==
    /\ R.pc = "done"
    /\ R.tool = "upgrade"
    /\ R.input.Version = <<>>
    /\ R.result.IsError
    /\ R.calls = <<>>
    /\ DOMAIN cache # {}

\* C14: deps.vulns and deps.health fail fast when ecosystem or package is
\* missing or empty: the request ends with an error, without a call of the
\* vulnerability or metadata service and without a cache write.
C14_ToolsValidate ==
    (R.tool \in {"vulns", "health"}
     /\ (R.input.Ecosystem = "" \/ R.input.Package = "")) =>
        /\ R.calls = <<>>
        /\ R.pc = "done" => R.result.IsError
        /\ VulnsKey(R.input) \notin DOMAIN cache
        /\ HealthKey(R.input) \notin DOMAIN cache

\* C15: when the context of an upgrade request is cancelled during the
\* vulnerability query or during the metadata query, the request ends with
\* no collaborator call after the cancelled one, its outcome is the
\* cancellation error (returned as the Go error, not as an upstream failure
\* result), and no plan is returned or cached.
C15_CancelAborts ==
    [][(/\ req["p1"].pc \in {"up_osv", "up_deps"}
        /\ ctx["p1"] = "cancelled"
        /\ req'["p1"] # req["p1"])
          => /\ req'["p1"].pc = "done"
             /\ req'["p1"].calls = Append(req["p1"].calls,
                                          IF req["p1"].pc = "up_osv" THEN "osv" ELSE "deps")
             /\ cache' = cache
             /\ req'["p1"].result.GoErr]_vars

\* C16: concurrent requests for different packages do not interfere: under
\* every interleaving each request's result is the result it would have
\* produced alone, the plan built from its own input and the answers of the
\* two services (the metadata answer and the clock are fixed here; the
\* vulnerability answer is the one the request received, or, for a plan
\* served from the cache, one the service can give).
C16_Alone(input, resp) ==
    MarshalPlan(BuildPlan(input, resp, ComputeHealthMetrics(world.deps.pkg, now)))

C16_NoInterference ==
    \A p, q \in Procs :
        (/\ p # q
         /\ <<req[p].input.Ecosystem, req[p].input.Package>>
               # <<req[q].input.Ecosystem, req[q].input.Package>>
         /\ req[p].pc = "done" /\ req[p].tool = "upgrade" /\ ~req[p].result.IsError) =>
            \E resp \in {NoResp, [ok |-> TRUE, Vulns |-> world.osv.vulns]} :
                /\ req[p].calls # <<>> => resp = req[p].vulnResp
                /\ req[p].result.Text = C16_Alone(req[p].input, resp)

\* C17: a cache entry is immutable once inserted: until its TTL expires the
\* value under its key is neither replaced nor modified, under every
\* interleaving, also when two requests for the same key both miss the
\* cache and both compute a result.
C17_EntriesImmutable ==
    [][\A k \in DOMAIN cache :
          now < cache[k].expiry =>
             (k \in DOMAIN cache' /\ cache'[k].val = cache[k].val)]_vars

\* C18: BreakingChanges is true exactly when the current and the latest
\* version are both non-empty and differ in their first byte, whatever
\* follows ("1.2.3" to "2.0.0" true, "1.2.3" to "10.0.0" false, "v1.0.0" to
\* "1.0.0" true); so an up-to-date plan never reports breaking changes.
C18_BreakingIffFirstByte ==
    OkOf("upgrade") =>
        LET cur == J.current_version
            lat == J.latest_version
        IN /\ J.breaking_changes_possible
                <=> (cur # <<>> /\ lat # <<>> /\ cur[1] # lat[1])
           /\ (cur = v123 /\ lat = v200) => J.breaking_changes_possible
           /\ (cur = v123 /\ lat = v1000) => ~J.breaking_changes_possible
           /\ (cur = vv100 /\ lat = v100) => J.breaking_changes_possible
           /\ J.is_up_to_date => ~J.breaking_changes_possible

C18_Witness ==
    /\ OkOf("upgrade")
    /\ J.current_version = v123
    /\ J.latest_version = v1000
    /\ ~J.breaking_changes_possible
    /\ J.priority = "RECOMMENDED"

\* C19: the plan's LatestVersion is the one the health scorer computed, and
\* IsUpToDate holds exactly when the current version is the same string:
\* "1.0" and "v1.0.0" are not up to date against "1.0.0".
C19_UpToDateIffSameString ==
    OkOf("upgrade") =>
        /\ J.latest_version = ComputeHealthMetrics(world.deps.pkg, now).LatestVersion
        /\ J.is_up_to_date <=> (J.current_version = J.latest_version)
        /\ (J.current_version \in {v10, vv100} /\ J.latest_version = v100)
              => ~J.is_up_to_date
        /\ (J.current_version = v100 /\ J.latest_version = v100) => J.is_up_to_date

C19_Witness ==
    /\ OkOf("upgrade")
    /\ J.current_version = vv100
    /\ J.latest_version = v100
    /\ ~J.is_up_to_date
    /\ J.priority = "MEDIUM"

\* C20: every plan deps.upgrade_plan returns echoes the request's package
\* and current version and has a non-empty LatestVersion, for every answer
\* the metadata service can give, also one with no version flagged default.
C20_EchoAndLatestVersion ==
    OkOf("upgrade") =>
        /\ J.package = R.input.Package
        /\ J.current_version = R.input.Version
        /\ J.latest_version # <<>>

(***************************************************************************)
(* C21.  Once the startup message is logged and the transport runs, a      *)
(* delivered SIGINT or SIGTERM leads to the exit of the process; and a     *)
(* process that exits after its run context was cancelled has shut down    *)
(* cleanly ("server shutdown complete"), never with "server failed".       *)
(***************************************************************************)
C21_SignalShutsDown ==
    /\ (srv.signalled ~> srv.pc = "exited")
    /\ [](srv.pc = "exited" /\ srv.runCtx = "cancelled"
             => /\ srv.exit = "clean"
                /\ Logged(LogSignal)
                /\ srv.log[Len(srv.log)] = LogComplete
                /\ ~Logged(LogFailed))

C21_Witness ==
    /\ srv.signalled
    /\ srv.pc = "exited"
    /\ srv.runCtx = "cancelled"
    /\ srv.exit = "clean"

(***************************************************************************)
(* C22.  license.info is case-insensitive: an identifier that equals a     *)
(* catalog id up to letter case gets that catalog entry, the one the       *)
(* canonical id gets.  An identifier that matches no catalog id (the       *)
(* lookup compares without regard to letter case and to surrounding white  *)
(* space) gets a result with IsError set and a nil Go error, and nothing   *)
(* is cached for it.  For GetLicense itself: an entry in the first case,   *)
(* an error in the second.                                                 *)
(***************************************************************************)
C22_EqualFold(a, b) == toLower(a) = toLower(b)

C22_Match(id) == {c \in LicenseIDs : C22_EqualFold(TrimSpace(id), c)}

Versions == world.deps.pkg.Versions

FlaggedRecords == {i \in 1..Len(Versions) : Versions[i].IsDefault}

FirstFlagged == CHOOSE i \in FlaggedRecords : \A j \in FlaggedRecords : i <= j

LastFlagged == CHOOSE i \in FlaggedRecords : \A j \in FlaggedRecords : j <= i

\* The latest publish timestamp over all records (the zero time when there
\* is none).
LatestPublished ==
    IF \A i \in 1..Len(Versions) : Versions[i].PublishedAt <= ZeroTime THEN ZeroTime
    ELSE CHOOSE t \in {Versions[i].PublishedAt : i \in 1..Len(Versions)} :
            \A i \in 1..Len(Versions) : Versions[i].PublishedAt <= t

(***************************************************************************)
(* C23, as stated.  With more than one record flagged, LatestVersion and   *)
(* LicenseCount are those of the first flagged record of the sequence, and *)
(* LastPublished is the latest publish timestamp over all records.         *)
(***************************************************************************)
C23_FirstFlaggedWins ==
    OkOf("health") /\ Cardinality(FlaggedRecords) > 1 =>
        /\ J.latest_version = Versions[FirstFlagged].Version
        /\ J.license_count = Len(Versions[FirstFlagged].Licenses)
        /\ J.last_published = LatestPublished

(***************************************************************************)
(* C23, amended.  With more than one record flagged, LatestVersion and     *)
(* LicenseCount are those of the last flagged record of the sequence, and  *)
(* LastPublished is the latest publish timestamp over all records,         *)
(* whichever records are flagged.                                          *)
(***************************************************************************)
C23_LastFlaggedAndLatestTimestamp ==
    /\ OkOf("health") /\ Cardinality(FlaggedRecords) > 1 =>
          /\ J.latest_version = Versions[LastFlagged].Version
          /\ J.license_count = Len(Versions[LastFlagged].Licenses)
    /\ OkOf("health") => J.last_published = LatestPublished

C23_Witness ==
    /\ OkOf("health")
    /\ Cardinality(FlaggedRecords) > 1
    /\ Versions[FirstFlagged].Version # Versions[LastFlagged].Version
    /\ Len(Versions[FirstFlagged].Licenses) # Len(Versions[LastFlagged].Licenses)
    /\ Versions[LastFlagged].PublishedAt = LatestPublished
    /\ J.latest_version = Versions[LastFlagged].Version

(***************************************************************************)
(* C24.  With more than one record flagged the last flagged record in scan *)
(* order gives LatestVersion and LicenseCount; with none flagged           *)
(* LatestVersion is empty and LicenseCount is 0, and the score has no      *)
(* license points even though other records declare licenses.              *)
(***************************************************************************)
C24_ScoreWithoutLicense ==
    C3_Recency(J.days_since_update) + C3_Cadence(J.version_count)
    + (IF J.has_repository THEN 20 ELSE 0) + (IF J.has_documentation THEN 10 ELSE 0)

C24_LastFlaggedOrNone ==
    OkOf("health") =>
        /\ Cardinality(FlaggedRecords) > 1 =>
              /\ J.latest_version = Versions[LastFlagged].Version
              /\ J.license_count = Len(Versions[LastFlagged].Licenses)
        /\ FlaggedRecords = {} =>
              /\ J.latest_version = <<>>
              /\ J.license_count = 0
              /\ J.maintenance_score = C24_ScoreWithoutLicense

C24_Witness ==
    /\ OkOf("health")
    /\ FlaggedRecords = {}
    /\ \E i \in 1..Len(Versions) : Len(Versions[i].Licenses) > 0
    /\ J.license_count = 0
    /\ J.maintenance_score = C24_ScoreWithoutLicense

(***************************************************************************)
(* C25.  Nothing is retried.  Every step of a deps.upgrade_plan request    *)
(* is one of: the entry, which ends the request without any query when     *)
(* the input is invalid or the cache has the plan, and otherwise goes to   *)
(* the vulnerability query with no query made yet; the one vulnerability   *)
(* query, after which the metadata query is next whether it failed or not; *)
(* the one metadata query, after which the request is over, failed or not. *)
(* So a request makes the queries <<>>, or "osv" then "deps", never more.  *)
(***************************************************************************)
C25_NothingRetried ==
    [][LET r == req["p1"]
           r2 == req'["p1"]
       IN r2 # r /\ r2.tool = "upgrade" =>
             /\ r.pc \in {"idle", "done"} =>
                   /\ r2.calls = <<>>
                   /\ r2.pc = IF \/ C13_Invalid(r2.input)
                                 \/ CacheHit(cache, UpgradeKey(r2.input), "plan", now)
                              THEN "done" ELSE "up_osv"
             /\ r.pc = "up_osv" => r2.pc = "up_deps" /\ r2.calls = <<"osv">>
             /\ r.pc = "up_deps" => r2.pc = "done" /\ r2.calls = <<"osv", "deps">>
             /\ r.pc \in {"idle", "done", "up_osv", "up_deps"}]_vars

C25_Witness ==
    /\ R.pc = "done" /\ R.tool = "upgrade"
    /\ ~R.vulnResp.ok
    /\ R.calls = <<"osv", "deps">>
    /\ ~R.result.IsError

(***************************************************************************)
(* C26.  For a package without versions the result is complete, with       *)
(* DaysSinceUpdate 0, the zero LastPublished, an empty LatestVersion and    *)
(* LicenseCount 0; the recency component is 40, so the score is            *)
(* 40 + 20 (repository) + 10 (documentation) and the level is "fair" or    *)
(* "good".                                                                 *)
(***************************************************************************)
C26_ZeroVersions ==
    OkOf("health") /\ Len(world.deps.pkg.Versions) = 0 =>
        LET pkg == world.deps.pkg
            repo == HasLabel(pkg.Links, {"SOURCE_REPO", "REPOSITORY"})
            docs == HasLabel(pkg.Links, {"DOCUMENTATION"})
        IN /\ DOMAIN J = {"package_name", "ecosystem", "latest_version", "version_count",
                          "last_published", "days_since_update", "has_repository",
                          "has_documentation", "license_count", "maintenance_score",
                          "maintenance_level", "recommendation"}
           /\ J.package_name = pkg.PackageKey.Name
           /\ J.ecosystem = pkg.PackageKey.System
           /\ J.version_count = 0
           /\ J.days_since_update = 0
           /\ J.last_published = ZeroTime
           /\ J.latest_version = <<>>
           /\ J.license_count = 0
           /\ J.has_repository = repo
           /\ J.has_documentation = docs
           /\ J.maintenance_score
                 = 40 + (IF repo THEN 20 ELSE 0) + (IF docs THEN 10 ELSE 0)
           /\ J.maintenance_level = (IF repo THEN "good" ELSE "fair")
           /\ J.recommendation = C2_Canned(J.maintenance_level)

C26_Witness ==
    /\ OkOf("health")
    /\ Len(world.deps.pkg.Versions) = 0
    /\ J.maintenance_score = 70
    /\ J.maintenance_level = "good"

(***************************************************************************)
(* C27.  The score is monotonic in each input, the others fixed: for the   *)
(* package just scored, scoring it at a later time gives no higher score   *)
(* and no better level; scoring it with more version records (unflagged,   *)
(* without publish time, so that nothing else changes), with a repository  *)
(* link added, with a documentation link added or with a license added to  *)
(* its default version gives no lower score.                               *)
(***************************************************************************)
C27_Rank(level) ==
    CASE level = "critical" -> 0
      [] level = "poor" -> 1
      [] level = "fair" -> 2
      [] level = "good" -> 3
      [] level = "excellent" -> 4

C27_Later == {d * MinutesPerDay : d \in {1, 29, 60, 90, 185, 400}}

C27_More == {1, 4, 10, 30}

C27_Record ==
    [Version |-> vOld, PublishedAt |-> ZeroTime, IsDefault |-> FALSE, Licenses |-> <<>>]

C27_WithVersions(pkg, k) ==
    [pkg EXCEPT !.Versions = [i \in 1..k |-> C27_Record] \o @]

C27_WithLink(pkg, label) == [pkg EXCEPT !.Links = Append(@, Link(label))]

C27_WithLicense(pkg) ==
    [pkg EXCEPT !.Versions =
        [i \in 1..Len(@) |->
            IF @[i].IsDefault THEN [@[i] EXCEPT !.Licenses = Append(@, "MIT")] ELSE @[i]]]

C27_Monotonic ==
    OkOf("health") =>
        LET pkg == world.deps.pkg
            Score(q, t) == ComputeHealthMetrics(q, t).MaintenanceScore
        IN /\ \A d \in C27_Later :
                 LET m == ComputeHealthMetrics(pkg, now + d)
                 IN /\ m.DaysSinceUpdate >= J.days_since_update
                    /\ m.MaintenanceScore <= J.maintenance_score
                    /\ C27_Rank(m.MaintenanceLevel) <= C27_Rank(J.maintenance_level)
           /\ \A k \in C27_More :
                 LET m == ComputeHealthMetrics(C27_WithVersions(pkg, k), now)
                 IN /\ m.VersionCount = J.version_count + k
                    /\ m.DaysSinceUpdate = J.days_since_update
                    /\ m.LicenseCount = J.license_count
                    /\ m.MaintenanceScore >= J.maintenance_score
           /\ Score(C27_WithLink(pkg, "SOURCE_REPO"), now) >= J.maintenance_score
           /\ Score(C27_WithLink(pkg, "DOCUMENTATION"), now) >= J.maintenance_score
           /\ Score(C27_WithLicense(pkg), now) >= J.maintenance_score

C27_Witness ==
    /\ OkOf("health")
    /\ J.maintenance_level = "good"
    /\ \E d \in C27_Later :
          ComputeHealthMetrics(world.deps.pkg, now + d).MaintenanceLevel = "fair"
    /\ \E k \in C27_More :
          ComputeHealthMetrics(C27_WithVersions(world.deps.pkg, k), now).MaintenanceScore
             > J.maintenance_score
    /\ ComputeHealthMetrics(C27_WithLicense(world.deps.pkg), now).MaintenanceScore
          > J.maintenance_score

(***************************************************************************)
(* C28.  A plan never hides vulnerabilities the vulnerability service      *)
(* reports.  When a deps.upgrade_plan request is answered at its entry     *)
(* (from the cache) while the service reports at least one vulnerability,  *)
(* the result has has_vulnerabilities set; and so has the result of a      *)
(* request whose own vulnerability query reported at least one.            *)
(***************************************************************************)
C28_CachedPlanNeverHides ==
    [][LET r == req["p1"]
           r2 == req'["p1"]
       IN (/\ r2 # r
           /\ r2.pc = "done" /\ r2.tool = "upgrade" /\ ~r2.result.IsError
           /\ \/ /\ r.pc \in {"idle", "done"}
                 /\ OsvQuery(world).ok
                 /\ Len(OsvQuery(world).Vulns) > 0
              \/ /\ r.pc = "up_deps"
                 /\ r.vulnResp.ok
                 /\ Len(r.vulnResp.Vulns) > 0)
          => r2.result.Text.has_vulnerabilities]_vars

(***************************************************************************)
(* C29.  Distinct requests never share a cache entry: two requests that    *)
(* differ in the tool or in a field their key is built from have           *)
(* different cache keys, also when a field contains ':'.                   *)
(***************************************************************************)
C29_Key(r) ==
    CASE r.tool = "upgrade" -> UpgradeKey(r.input)
      [] r.tool = "vulns" -> VulnsKey(r.input)
      [] r.tool = "health" -> HealthKey(r.input)
      [] r.tool = "license" -> LicenseKey(r.input)

C29_KeyFields(r) ==
    CASE r.tool = "upgrade" -> <<r.input.Ecosystem, r.input.Package, r.input.Version>>
      [] r.tool = "vulns" -> <<r.input.Ecosystem, r.input.Package, r.input.Version>>
      [] r.tool = "health" -> <<r.input.Ecosystem, r.input.Package>>
      [] r.tool = "license" -> <<r.input.LicenseID>>

C29_DistinctKeys ==
    \A p, q \in Procs :
        (/\ req[p].tool # "none" /\ req[q].tool # "none"
         /\ <<req[p].tool, C29_KeyFields(req[p])>> # <<req[q].tool, C29_KeyFields(req[q])>>)
            => C29_Key(req[p]) # C29_Key(req[q])

(***************************************************************************)
(* C30.  A cache hit is read-only.  When a valid deps.upgrade_plan,        *)
(* deps.health or deps.vulns request finds an unexpired entry of its type  *)
(* under its key, the request ends at once with the serialization of the   *)
(* stored value, makes no query and leaves the cache as it is.  The cache  *)
(* changes only in the last step of a request that computed its result     *)
(* successfully: then the result is stored under the request's key, to     *)
(* expire 5 minutes later.                                                 *)
(***************************************************************************)
C30_Kind(tool) ==
    CASE tool = "upgrade" -> "plan"
      [] tool = "vulns" -> "vulns"
      [] tool = "health" -> "health"

C30_Marshal(tool, val) ==
    CASE tool = "upgrade" -> MarshalPlan(val)
      [] tool = "vulns" -> MarshalVulns(val)
      [] tool = "health" -> MarshalHealth(val)

C30_HitIsReadOnly ==
    [][LET r == req["p1"]
           r2 == req'["p1"]
           key == C29_Key(r2)
       IN /\ (/\ r2 # r
              /\ r.pc \in {"idle", "done"}
              /\ r2.tool \in {"upgrade", "vulns", "health"}
              /\ ~(r2.tool = "upgrade" /\ C13_Invalid(r2.input))
              /\ CacheHit(cache, key, C30_Kind(r2.tool), now))
             => /\ r2.pc = "done"
                /\ r2.result = OkResult(C30_Marshal(r2.tool, cache[key].val))
                /\ r2.calls = <<>>
                /\ cache' = cache
          /\ cache' # cache
             => /\ r.pc \in {"up_deps", "v_osv", "h_deps"}
                /\ r2.pc = "done" /\ ~r2.result.IsError
                /\ r2.calls # <<>>
                /\ cache' = CacheSet(cache, key, C30_Kind(r2.tool),
                                     cache'[key].val, 5, now)
                /\ r2.result = OkResult(C30_Marshal(r2.tool, cache'[key].val))]_vars

C30_Witness ==
    /\ R.pc = "done" /\ R.tool = "upgrade" /\ ~R.result.IsError
    /\ R.calls = <<>>
    /\ CacheHit(cache, UpgradeKey(R.input), "plan", now)
    /\ J = MarshalPlan(cache[UpgradeKey(R.input)].val)
    /\ now > Now0

====
